---- MODULE Spec2Model ----
(***************************************************************************)
(* Model of the tile-matching puzzle of src/src/main.rs: the action        *)
(* engine (apply_action / apply_inverse_action), the puzzle generation of  *)
(* the start_match system and the input handling of handle_input.          *)
(*                                                                         *)
(* Conventions.  Rust's Option is a sequence of length at most one         *)
(* (None == <<>>, Some(x) == <<x>>).  A Vec is a TLA+ sequence; the code's *)
(* 0-based index i is position i + 1 of the sequence.  A panic (a failed   *)
(* assert!, unwrap of None, an out-of-bounds swap) ends the process; it is *)
(* recorded in a flag and nothing runs afterwards.                         *)
(***************************************************************************)
EXTENDS Integers, Sequences, FiniteSets, TLC

VARIABLES
    cfg,                 \* the let-constants of start_match
    match_state,         \* "Ready" or "Playing" (enum MatchState)
    left_col,            \* MatchStatePlaying.left_col  (Vec<TileData>)
    right_col,           \* MatchStatePlaying.right_col (Vec<TileData>)
    cards,               \* MatchStatePlaying.cards     (Vec<CardData>)
    hovered_card,        \* MatchStatePlaying.hovered_card (Option<usize>)
    start_match_events,  \* StartMatchEvent values sent and not yet read
    requests,            \* StartMatchEvent values sent so far
    sent_tiles,          \* UpdateTilesPosition events sent by the last system run
    sent_cards,          \* UpdateCardsStyle events sent by the last system run
    log,                 \* info! messages written by the last system run
    applied,             \* ghost: indices of the cards whose inverse the deal applied, in order
    world_tiles,         \* entities carrying the Tile marker
    world_cards,         \* entities carrying the Card marker
    panicked,            \* the process has panicked
    rng_used,            \* ghost: the last run of start_match drew from rand::thread_rng()
    unread_tiles,        \* update_tiles_position has UpdateTilesPosition events to read
    unread_cards,        \* update_cards_style has UpdateCardsStyle events to read
    visible,             \* entities whose spawn commands were applied: the queries see them
    reader_fault,        \* ghost: "none", or the panic of a reading system:
                         \* "unreachable", "unwrap", "index"
    eng                  \* the action engine on its own: inputs, operations applied, columns

vars == <<cfg, match_state, left_col, right_col, cards, hovered_card,
          start_match_events, requests, sent_tiles, sent_cards, log, applied,
          world_tiles, world_cards, panicked, rng_used,
          unread_tiles, unread_cards, visible, reader_fault, eng>>

gameVars == <<cfg, match_state, left_col, right_col, cards, hovered_card,
              start_match_events, requests, sent_tiles, sent_cards, log, applied,
              world_tiles, world_cards, panicked, rng_used,
              unread_tiles, unread_cards, visible, reader_fault>>

-----------------------------------------------------------------------------
(* Bounds.  The source fixes tiles_count = 4, card_count = 5,              *)
(* applied_card_count = 3 and eight natures; the model runs the same code  *)
(* on smaller numbers.                                                     *)

\* tiles per column in the main configuration (the source's tiles_count is 4)
TilesCount == 3

\* cards dealt (the source's card_count is 5)
CardCount == 2

\* cards whose inverse is applied by the deal (the source's applied_card_count is 3)
AppliedCardCount == 2

\* natures in the pool (the source's nature_count() is 8)
NatureCount == 3

\* StartMatchEvent values ever sent, the one of setup included
MaxStartRequests == 2

\* longest column given to the action engine on its own
MaxLen == 3

\* operations applied in a row to the engine's columns
MaxOps == 2

-----------------------------------------------------------------------------
(* Option                                                                  *)

None == <<>>

Some(x) == <<x>>

IsSome(o) == Len(o) = 1

Unwrap(o) == o[1]

-----------------------------------------------------------------------------
(* Vec operations of the standard library used by the engine               *)

\* Vec::swap(a, b), 0-based; the caller has checked the bounds
swap(col, a, b) ==
    [k \in 1..Len(col) |->
        IF k = a + 1 THEN col[b + 1]
        ELSE IF k = b + 1 THEN col[a + 1]
        ELSE col[k]]

MutRotateLeftByOne(col, mid) ==
    [k \in 1..Len(col) |-> col[((k - 1 + 1) % Len(col)) + 1]]

\* slice::rotate_left(mid): the element at index mid becomes the first
rotate_left(col, mid) ==
    [k \in 1..Len(col) |-> col[((k - 1 + mid) % Len(col)) + 1]]

\* slice::rotate_right(k): the element at index len - k becomes the first
rotate_right(col, k) ==
    [i \in 1..Len(col) |-> col[((i - 1 - k + Len(col)) % Len(col)) + 1]]

\* get_nature: both callers hand over the closure |x| x.nature
nature_of(x) == x.nature

\* col.iter().position(|x| get_nature(x) == n): the first 0-based index whose
\* nature is n
position(col, n) ==
    LET hits == {i \in 1..Len(col) : nature_of(col[i]) = n}
    IN  IF hits = {} THEN None
        ELSE Some((CHOOSE i \in hits : \A j \in hits : i <= j) - 1)

\* Vec::swap_remove(i): removes index i and puts the last element in its place
swap_remove_rest(v, i) ==
    [k \in 1..(Len(v) - 1) |-> IF k = i + 1 THEN v[Len(v)] ELSE v[k]]

-----------------------------------------------------------------------------
(* enum Action                                                             *)

TileSides == {"Left", "Right"}

CycleDirections == {"Up", "Down"}

SwapFirstAndLast(side) == [kind |-> "SwapFirstAndLast", side |-> side]

SwapTwoAdjacent(top, side) == [kind |-> "SwapTwoAdjacent", top |-> top, side |-> side]

SwapTwoNatures(nature_a, nature_b, side) ==
    [kind |-> "SwapTwoNatures", nature_a |-> nature_a, nature_b |-> nature_b, side |-> side]

Cycle(times, direction, side) ==
    [kind |-> "Cycle", times |-> times, direction |-> direction, side |-> side]

\* the column an action names, and the result of writing it back
pick_col(side, left, right) == IF side = "Left" THEN left ELSE right

Cols(left, right) == [left_col |-> left, right_col |-> right, panicked |-> FALSE]

Panic(left, right) == [left_col |-> left, right_col |-> right, panicked |-> TRUE]

\* the arms of match side exchanged
MutPutColOtherSide(side, col, left, right) ==
    IF side = "Left" THEN Cols(left, col) ELSE Cols(col, right)

put_col(side, col, left, right) ==
    IF side = "Left" THEN Cols(col, right) ELSE Cols(left, col)

\* SwapFirstAndLast refusing a column of fewer than two entries
MutSwapArmsNeedTwo(action, left, right) ==
    LET col == pick_col(action.side, left, right)
    IN  CASE action.kind = "SwapFirstAndLast" ->
                IF Len(col) < 2 THEN Panic(left, right)
                ELSE put_col(action.side, swap(col, 0, Len(col) - 1), left, right)
          [] action.kind = "SwapTwoAdjacent" ->
                IF action.top + 1 >= Len(col) THEN Panic(left, right)
                ELSE put_col(action.side, swap(col, action.top, action.top + 1), left, right)
          [] action.kind = "SwapTwoNatures" ->
                LET index_a == position(col, action.nature_a)
                    index_b == position(col, action.nature_b)
                IN  IF ~IsSome(index_a) \/ ~IsSome(index_b) THEN Panic(left, right)
                    ELSE put_col(action.side,
                                 swap(col, Unwrap(index_a), Unwrap(index_b)), left, right)

\* the swaps guarded (if bottom < col.len(), if let Some(..)) instead of
\* indexing and unwrapping
MutSwapArmsSkipInvalid(action, left, right) ==
    LET col == pick_col(action.side, left, right)
    IN  CASE action.kind = "SwapFirstAndLast" ->
                IF Len(col) = 0 THEN Panic(left, right)
                ELSE put_col(action.side, swap(col, 0, Len(col) - 1), left, right)
          [] action.kind = "SwapTwoAdjacent" ->
                IF action.top + 1 >= Len(col) THEN Cols(left, right)
                ELSE put_col(action.side, swap(col, action.top, action.top + 1), left, right)
          [] action.kind = "SwapTwoNatures" ->
                LET index_a == position(col, action.nature_a)
                    index_b == position(col, action.nature_b)
                IN  IF ~IsSome(index_a) \/ ~IsSome(index_b) THEN Cols(left, right)
                    ELSE put_col(action.side,
                                 swap(col, Unwrap(index_a), Unwrap(index_b)), left, right)

\* the three swap arms, which the two functions share word for word
swap_arms(action, left, right) ==
    LET col == pick_col(action.side, left, right)
    IN  CASE action.kind = "SwapFirstAndLast" ->
                \* col_len - 1 underflows on an empty column
                IF Len(col) = 0 THEN Panic(left, right)
                ELSE put_col(action.side, swap(col, 0, Len(col) - 1), left, right)
          [] action.kind = "SwapTwoAdjacent" ->
                IF action.top + 1 >= Len(col) THEN Panic(left, right)
                ELSE put_col(action.side, swap(col, action.top, action.top + 1), left, right)
          [] action.kind = "SwapTwoNatures" ->
                LET index_a == position(col, action.nature_a)
                    index_b == position(col, action.nature_b)
                IN  IF ~IsSome(index_a) \/ ~IsSome(index_b) THEN Panic(left, right)
                    ELSE put_col(action.side,
                                 swap(col, Unwrap(index_a), Unwrap(index_b)), left, right)

\* times as usize: a negative i32 becomes a number above every length, and
\* rotate_left / rotate_right assert that the amount is at most the length
rotate_panics(col, times) == times < 0 \/ times > Len(col)

MutInverseSameDirection(action, left, right) ==
    LET col == pick_col(action.side, left, right)
    IN  IF action.kind # "Cycle" THEN swap_arms(action, left, right)
        ELSE IF rotate_panics(col, action.times) THEN Panic(left, right)
        ELSE IF Len(col) = 0 THEN Cols(left, right)
        ELSE IF action.direction = "Down"
             THEN put_col(action.side, rotate_left(col, action.times), left, right)
             ELSE put_col(action.side, rotate_right(col, action.times), left, right)

apply_inverse_action(action, left, right) ==
    LET col == pick_col(action.side, left, right)
    IN  IF action.kind # "Cycle" THEN swap_arms(action, left, right)
        ELSE IF rotate_panics(col, action.times) THEN Panic(left, right)
        ELSE IF Len(col) = 0 THEN Cols(left, right)
        ELSE IF action.direction = "Down"
             THEN put_col(action.side, rotate_right(col, action.times), left, right)
             ELSE put_col(action.side, rotate_left(col, action.times), left, right)

MutApplyCycleReversed(action, left, right) ==
    LET col == pick_col(action.side, left, right)
    IN  IF action.kind # "Cycle" THEN swap_arms(action, left, right)
        ELSE IF rotate_panics(col, action.times) THEN Panic(left, right)
        ELSE IF Len(col) = 0 THEN Cols(left, right)
        ELSE IF action.direction = "Down"
             THEN put_col(action.side, rotate_right(col, action.times), left, right)
             ELSE put_col(action.side, rotate_left(col, action.times), left, right)

MutApplyDropsEntry(action, left, right) ==
    LET col == pick_col(action.side, left, right)
    IN  IF action.kind = "SwapTwoAdjacent" /\ action.top + 1 < Len(col)
        THEN put_col(action.side,
                     [k \in 1..Len(col) |->
                        IF k = action.top + 2 THEN col[action.top + 1] ELSE col[k]],
                     left, right)
        ELSE IF action.kind # "Cycle" THEN swap_arms(action, left, right)
        ELSE IF rotate_panics(col, action.times) THEN Panic(left, right)
        ELSE IF Len(col) = 0 THEN Cols(left, right)
        ELSE IF action.direction = "Down"
             THEN put_col(action.side, rotate_left(col, action.times), left, right)
             ELSE put_col(action.side, rotate_right(col, action.times), left, right)

apply_action(action, left, right) ==
    LET col == pick_col(action.side, left, right)
    IN  IF action.kind # "Cycle" THEN swap_arms(action, left, right)
        ELSE IF rotate_panics(col, action.times) THEN Panic(left, right)
        ELSE IF Len(col) = 0 THEN Cols(left, right)
        ELSE IF action.direction = "Down"
             THEN put_col(action.side, rotate_left(col, action.times), left, right)
             ELSE put_col(action.side, rotate_right(col, action.times), left, right)

-----------------------------------------------------------------------------
(* start_match: the deal                                                   *)

\* n times pool.swap_remove(rng.gen_range(0, pool.len())): every sequence of
\* removed elements the draws can produce (none when the pool runs out,
\* where gen_range(0, 0) panics)
RECURSIVE draw(_, _)
draw(pool, n) ==
    IF n = 0 THEN {<<>>}
    ELSE UNION {{<<pool[i + 1]>> \o rest : rest \in draw(swap_remove_rest(pool, i), n - 1)} :
                i \in 0..(Len(pool) - 1)}

\* (0..nature_count()).collect()
nature_pool(nature_count) == [k \in 1..nature_count |-> k - 1]

\* pool.pop() after reading pool[i] in place of pool.swap_remove(i)
MutTilesPopped(c) ==
    {t \in [1..c.tiles_count -> 0..(c.nature_count - 1)] :
        \A k \in 1..c.tiles_count : t[k] <= c.nature_count - k}

\* the values the block computing tiles_order can yield
tiles_orders(c) == draw(nature_pool(c.nature_count), c.tiles_count)

\* gen_range(0, tiles_order.len()) for top
MutChoicesTopUpToLast(tiles_order) ==
    {SwapFirstAndLast(side) : side \in TileSides}
    \cup {SwapTwoAdjacent(top, side) :
            top \in 0..(Len(tiles_order) - 1), side \in TileSides}
    \cup {SwapTwoNatures(ab[1], ab[2], side) :
            ab \in draw(tiles_order, 2), side \in TileSides}
    \cup {Cycle(1, direction, side) :
            direction \in CycleDirections, side \in TileSides}

\* the actions one iteration of the card loop can push
card_action_choices(tiles_order) ==
    {SwapFirstAndLast(side) : side \in TileSides}
    \cup {SwapTwoAdjacent(top, side) :
            top \in 0..(Len(tiles_order) - 2), side \in TileSides}
    \cup {SwapTwoNatures(ab[1], ab[2], side) :
            ab \in draw(tiles_order, 2), side \in TileSides}
    \cup {Cycle(1, direction, side) :
            direction \in CycleDirections, side \in TileSides}

\* gen_range(0, tiles_order.len() - 1) and the second swap_remove of the
\* SwapTwoNatures arm have an empty range when there are fewer than two tiles
card_generation_can_panic(c) == c.card_count >= 1 /\ c.tiles_count < 2

\* the values card_actions can take
card_hands(c, tiles_order) == [1..c.card_count -> card_action_choices(tiles_order)]

\* the indices (into card_actions) of the cards removed from cards_to_apply_pool
applied_orders(c) ==
    draw([k \in 1..c.card_count |-> k - 1], c.applied_card_count)

RECURSIVE MutDealAppliesForward(_, _, _, _)
MutDealAppliesForward(hand, order, left, right) ==
    IF order = <<>> THEN Cols(left, right)
    ELSE LET r == apply_action(hand[Head(order) + 1], left, right)
         IN  IF r.panicked THEN r
             ELSE MutDealAppliesForward(hand, Tail(order), r.left_col, r.right_col)

\* the loop applying apply_inverse_action to the cards drawn, in the order drawn
RECURSIVE apply_inverses(_, _, _, _)
apply_inverses(hand, order, left, right) ==
    IF order = <<>> THEN Cols(left, right)
    ELSE LET r == apply_inverse_action(hand[Head(order) + 1], left, right)
         IN  IF r.panicked THEN r
             ELSE apply_inverses(hand, Tail(order), r.left_col, r.right_col)

\* both building columns, same natures in the same order, no entity yet
build_col(tiles_order) ==
    [k \in 1..Len(tiles_order) |-> [id |-> None, nature |-> tiles_order[k]]]

MutDealCardsUsed(tiles_order, hand, order, base) ==
    LET built == apply_inverses(hand, order, build_col(tiles_order), build_col(tiles_order))
        n == Len(tiles_order)
    IN  [left_col  |-> [k \in 1..n |->
                         [id |-> base + 2 * (k - 1), nature |-> built.left_col[k].nature]],
         right_col |-> [k \in 1..n |->
                         [id |-> base + 2 * (k - 1) + 1, nature |-> built.right_col[k].nature]],
         cards     |-> [i \in 1..Len(hand) |->
                         [action |-> hand[i], used |-> Some(0), id |-> base + 2 * n + (i - 1)]],
         applied   |-> order,
         panicked  |-> built.panicked]

\* the cards spawned from the cards drawn to be applied, not from card_actions
MutDealOnlyApplied(tiles_order, hand, order, base) ==
    LET built == apply_inverses(hand, order, build_col(tiles_order), build_col(tiles_order))
        n == Len(tiles_order)
    IN  [left_col  |-> [k \in 1..n |->
                         [id |-> base + 2 * (k - 1), nature |-> built.left_col[k].nature]],
         right_col |-> [k \in 1..n |->
                         [id |-> base + 2 * (k - 1) + 1, nature |-> built.right_col[k].nature]],
         cards     |-> [i \in 1..Len(order) |->
                         [action |-> hand[order[i] + 1], used |-> None,
                          id |-> base + 2 * n + (i - 1)]],
         applied   |-> order,
         panicked  |-> built.panicked]

\* the PlayingState start_match installs for given draws; base is the number of
\* entities spawned before (tile i of the left column is spawned first, then
\* tile i of the right column; the cards follow)
deal(tiles_order, hand, order, base) ==
    LET built == apply_inverses(hand, order, build_col(tiles_order), build_col(tiles_order))
        n == Len(tiles_order)
    IN  [left_col  |-> [k \in 1..n |->
                         [id |-> base + 2 * (k - 1), nature |-> built.left_col[k].nature]],
         right_col |-> [k \in 1..n |->
                         [id |-> base + 2 * (k - 1) + 1, nature |-> built.right_col[k].nature]],
         cards     |-> [i \in 1..Len(hand) |->
                         [action |-> hand[i], used |-> None, id |-> base + 2 * n + (i - 1)]],
         applied   |-> order,
         panicked  |-> built.panicked]

ids_of(seq) == {seq[k].id : k \in 1..Len(seq)}

\* assert!(tiles_count <= TILES_LEFT.len()), the first statement of the block
\* computing tiles_order
tiles_assert_holds(c) == c.tiles_count <= c.nature_count

\* assert!(applied_card_count <= card_count), which follows the card loop
applied_assert_holds(c) == c.applied_card_count <= c.card_count

\* the two assert! of start_match
config_asserts_hold(c) ==
    /\ tiles_assert_holds(c)
    /\ applied_assert_holds(c)

\* a run that gets past the first assert! calls gen_range once per tile and
\* at least once per card
random_draws_made(c) == c.tiles_count >= 1 \/ c.card_count >= 1

\* the run panicked before anything was spawned or installed
aborted_deal ==
    [left_col |-> <<>>, right_col |-> <<>>, cards |-> <<>>, applied |-> <<>>,
     panicked |-> TRUE]

\* everything one run of the loop body can install
deals(c, base) ==
    UNION {{deal(tiles_order, hand, order, base) :
                hand \in card_hands(c, tiles_order), order \in applied_orders(c)} :
           tiles_order \in tiles_orders(c)}

-----------------------------------------------------------------------------
(* handle_input                                                            *)

Keys == {"Left", "Right", "Space"}

\* what handle_input reads and writes
playing(l, r, cs, h) ==
    [left_col |-> l, right_col |-> r, cards |-> cs, hovered_card |-> h,
     sent_tiles |-> 0, sent_cards |-> 0, log |-> <<>>, panicked |-> FALSE]

\* the cursor moved left and the card it left marked as used
MutHoverPreviousMarksCard(s) ==
    IF ~IsSome(s.hovered_card) THEN [s EXCEPT !.sent_cards = @ + 1]
    ELSE IF Len(s.cards) = 0 THEN [s EXCEPT !.panicked = TRUE]
    ELSE [s EXCEPT !.hovered_card =
                        IF Unwrap(@) = 0 THEN Some(Len(s.cards) - 1)
                        ELSE Some(Unwrap(@) - 1),
                   !.cards[Unwrap(s.hovered_card) + 1].used = Some(0),
                   !.sent_cards = @ + 1]

MutHoverPreviousNoWrap(s) ==
    IF ~IsSome(s.hovered_card) THEN [s EXCEPT !.sent_cards = @ + 1]
    ELSE [s EXCEPT !.hovered_card =
                        IF Unwrap(@) = 0 THEN Some(0) ELSE Some(Unwrap(@) - 1),
                   !.sent_cards = @ + 1]

\* if keyboard_input.just_pressed(KeyCode::Left)
hover_previous(s) ==
    IF ~IsSome(s.hovered_card) THEN [s EXCEPT !.sent_cards = @ + 1]
    ELSE IF Unwrap(s.hovered_card) = 0 /\ Len(s.cards) = 0
         THEN [s EXCEPT !.panicked = TRUE]     \* cards.len() - 1 underflows
    ELSE [s EXCEPT !.hovered_card =
                        IF Unwrap(@) = 0 THEN Some(Len(s.cards) - 1)
                        ELSE Some(Unwrap(@) - 1),
                   !.sent_cards = @ + 1]

\* the cursor moved right without the test for the last card
MutHoverNextNoWrap(s) ==
    IF ~IsSome(s.hovered_card) THEN [s EXCEPT !.sent_cards = @ + 1]
    ELSE [s EXCEPT !.hovered_card = Some(Unwrap(@) + 1),
                   !.sent_cards = @ + 1]

MutHoverNextSilent(s) ==
    IF ~IsSome(s.hovered_card) THEN s
    ELSE IF Len(s.cards) = 0
         THEN [s EXCEPT !.panicked = TRUE]
    ELSE [s EXCEPT !.hovered_card =
                        IF Unwrap(@) = Len(s.cards) - 1 THEN Some(0)
                        ELSE Some(Unwrap(@) + 1)]

\* if keyboard_input.just_pressed(KeyCode::Right)
hover_next(s) ==
    IF ~IsSome(s.hovered_card) THEN [s EXCEPT !.sent_cards = @ + 1]
    ELSE IF Len(s.cards) = 0
         THEN [s EXCEPT !.panicked = TRUE]     \* cards.len() - 1 underflows
    ELSE [s EXCEPT !.hovered_card =
                        IF Unwrap(@) = Len(s.cards) - 1 THEN Some(0)
                        ELSE Some(Unwrap(@) + 1),
                   !.sent_cards = @ + 1]

MutNextUsedNoIncrement(cs) ==
    LET used == {Unwrap(cs[i].used) : i \in {j \in 1..Len(cs) : IsSome(cs[j].used)}}
    IN  IF used = {} THEN 0
        ELSE CHOOSE m \in used : \A u \in used : u <= m

\* match_state.cards.iter().filter_map(|x| x.used).max(), then i + 1 or 0
next_used(cs) ==
    LET used == {Unwrap(cs[i].used) : i \in {j \in 1..Len(cs) : IsSome(cs[j].used)}}
    IN  IF used = {} THEN 0
        ELSE (CHOOSE m \in used : \A u \in used : u <= m) + 1

MutColumnsMatchAny(l, r) ==
    \E k \in 1..(IF Len(l) <= Len(r) THEN Len(l) ELSE Len(r)) :
        l[k].nature = r[k].nature

\* left_col.iter().zip(right_col.iter()).all(|(l, r)| l.nature == r.nature)
natures_in_the_columns_match(l, r) ==
    \A k \in 1..(IF Len(l) <= Len(r) THEN Len(l) ELSE Len(r)) :
        l[k].nature = r[k].nature

\* the cursor moved on to the next card after an activation
MutActivateAdvancesCursor(s) ==
    IF ~IsSome(s.hovered_card) THEN s
    ELSE LET h == Unwrap(s.hovered_card) + 1
         IN  IF h > Len(s.cards) THEN [s EXCEPT !.panicked = TRUE]
             ELSE IF s.cards[h].used # None THEN [s EXCEPT !.sent_cards = @ + 1]
             ELSE LET r == apply_action(s.cards[h].action, s.left_col, s.right_col)
                  IN  IF r.panicked THEN [s EXCEPT !.panicked = TRUE]
                      ELSE [s EXCEPT
                              !.left_col = r.left_col,
                              !.right_col = r.right_col,
                              !.cards[h].used = Some(next_used(s.cards)),
                              !.hovered_card = Some(h % Len(s.cards)),
                              !.sent_tiles = @ + 1,
                              !.log = Append(@,
                                  IF natures_in_the_columns_match(r.left_col, r.right_col)
                                  THEN "Victory" ELSE "Retry"),
                              !.sent_cards = @ + 1]

MutActivateIgnoresUsed(s) ==
    IF ~IsSome(s.hovered_card) THEN s
    ELSE LET h == Unwrap(s.hovered_card) + 1
         IN  IF h > Len(s.cards) THEN [s EXCEPT !.panicked = TRUE]
             ELSE LET r == apply_action(s.cards[h].action, s.left_col, s.right_col)
                  IN  IF r.panicked THEN [s EXCEPT !.panicked = TRUE]
                      ELSE [s EXCEPT
                              !.left_col = r.left_col,
                              !.right_col = r.right_col,
                              !.cards[h].used = Some(next_used(s.cards)),
                              !.sent_tiles = @ + 1,
                              !.log = Append(@,
                                  IF natures_in_the_columns_match(r.left_col, r.right_col)
                                  THEN "Victory" ELSE "Retry"),
                              !.sent_cards = @ + 1]

\* if just_pressed(KeyCode::Space) || just_pressed(KeyCode::Return)
activate(s) ==
    IF ~IsSome(s.hovered_card) THEN s
    ELSE LET h == Unwrap(s.hovered_card) + 1
         IN  IF h > Len(s.cards) THEN [s EXCEPT !.panicked = TRUE]
             ELSE IF s.cards[h].used # None THEN [s EXCEPT !.sent_cards = @ + 1]
             ELSE LET r == apply_action(s.cards[h].action, s.left_col, s.right_col)
                  IN  IF r.panicked THEN [s EXCEPT !.panicked = TRUE]
                      ELSE [s EXCEPT
                              !.left_col = r.left_col,
                              !.right_col = r.right_col,
                              !.cards[h].used = Some(next_used(s.cards)),
                              !.sent_tiles = @ + 1,
                              !.log = Append(@,
                                  IF natures_in_the_columns_match(r.left_col, r.right_col)
                                  THEN "Victory" ELSE "Retry"),
                              !.sent_cards = @ + 1]

\* one run of the system with the given keys just pressed: the three ifs in
\* their order, each skipped once the process has panicked
handle_input(s, keys) ==
    LET s1 == IF "Left" \in keys THEN hover_previous(s) ELSE s
        s2 == IF "Right" \in keys /\ ~s1.panicked THEN hover_next(s1) ELSE s1
        s3 == IF "Space" \in keys /\ ~s2.panicked THEN activate(s2) ELSE s2
    IN  s3

-----------------------------------------------------------------------------
(* The systems as actions                                                  *)

\* entities spawned so far (tiles and cards; ids are handed out in order)
spawned == Cardinality(world_tiles \cup world_cards)

\* setup has run: MatchState::Ready is installed and one StartMatchEvent sent
InitGame(c) ==
    /\ cfg = c
    /\ match_state = "Ready"
    /\ left_col = <<>>
    /\ right_col = <<>>
    /\ cards = <<>>
    /\ hovered_card = None
    /\ start_match_events = 1
    /\ requests = 1
    /\ sent_tiles = 0
    /\ sent_cards = 0
    /\ log = <<>>
    /\ applied = <<>>
    /\ world_tiles = {}
    /\ world_cards = {}
    /\ panicked = FALSE
    /\ rng_used = FALSE
    /\ unread_tiles = FALSE
    /\ unread_cards = FALSE
    /\ visible = {}
    /\ reader_fault = "none"

MutInstallKeepsUsed(d) ==
    /\ match_state' = "Playing"
    /\ left_col' = d.left_col
    /\ right_col' = d.right_col
    /\ cards' = [i \in 1..Len(d.cards) |->
                    [d.cards[i] EXCEPT !.used = IF i <= Len(cards) THEN cards[i].used ELSE None]]
    /\ hovered_card' = Some(0)
    /\ applied' = d.applied
    /\ world_tiles' = world_tiles \cup ids_of(d.left_col) \cup ids_of(d.right_col)
    /\ world_cards' = world_cards \cup ids_of(d.cards)
    /\ sent_cards' = 1
    /\ unread_cards' = TRUE
    /\ panicked' = FALSE

\* *match_state = MatchState::Playing(..) with the entities spawned for it,
\* and event_update_cards_style.send(UpdateCardsStyle)
Install(d) ==
    /\ match_state' = "Playing"
    /\ left_col' = d.left_col
    /\ right_col' = d.right_col
    /\ cards' = d.cards
    /\ hovered_card' = Some(0)
    /\ applied' = d.applied
    /\ world_tiles' = world_tiles \cup ids_of(d.left_col) \cup ids_of(d.right_col)
    /\ world_cards' = world_cards \cup ids_of(d.cards)
    /\ sent_cards' = 1
    /\ unread_cards' = TRUE
    /\ panicked' = FALSE

MutAbortAfterInstall ==
    /\ panicked' = TRUE
    /\ sent_cards' = 0
    /\ match_state' = "Playing"
    /\ hovered_card' = Some(0)
    /\ UNCHANGED <<left_col, right_col, cards, applied, world_tiles, world_cards,
                   unread_cards>>

\* a panic inside start_match: the run ends before anything is spawned and
\* before *match_state is assigned
AbortStartMatch ==
    /\ panicked' = TRUE
    /\ sent_cards' = 0
    /\ UNCHANGED <<match_state, left_col, right_col, cards, hovered_card,
                   applied, world_tiles, world_cards, unread_cards>>

\* the system start_match reading one StartMatchEvent
StartMatch ==
    /\ ~panicked
    /\ start_match_events >= 1
    /\ start_match_events' = 0
    /\ sent_tiles' = 0
    /\ log' = <<>>
    /\ UNCHANGED <<cfg, requests, unread_tiles, visible, reader_fault, eng>>
    /\ IF ~tiles_assert_holds(cfg)
       THEN /\ rng_used' = FALSE
            /\ AbortStartMatch
       ELSE /\ rng_used' = random_draws_made(cfg)
            /\ IF ~applied_assert_holds(cfg)
               THEN AbortStartMatch
               ELSE \E d \in deals(cfg, spawned) \cup
                             (IF card_generation_can_panic(cfg) THEN {aborted_deal} ELSE {}) :
                      IF d.panicked THEN AbortStartMatch ELSE Install(d)

\* hover keys send UpdateCardsStyle without a match being played
MutHandleInputInReady(keys) ==
    /\ ~panicked
    /\ UNCHANGED <<cfg, match_state, start_match_events, requests, applied,
                   world_tiles, world_cards, rng_used, visible, reader_fault, eng>>
    /\ IF match_state # "Playing"
       THEN /\ sent_tiles' = 0
            /\ sent_cards' = IF keys \cap {"Left", "Right"} # {} THEN 1 ELSE 0
            /\ log' = <<>>
            /\ UNCHANGED <<left_col, right_col, cards, hovered_card, panicked>>
       ELSE \E s \in {handle_input(playing(left_col, right_col, cards, hovered_card), keys)} :
                /\ left_col' = s.left_col
                /\ right_col' = s.right_col
                /\ cards' = s.cards
                /\ hovered_card' = s.hovered_card
                /\ sent_tiles' = s.sent_tiles
                /\ sent_cards' = s.sent_cards
                /\ log' = s.log
                /\ panicked' = s.panicked
    /\ unread_tiles' = (unread_tiles \/ sent_tiles' >= 1)
    /\ unread_cards' = (unread_cards \/ sent_cards' >= 1)

\* the system handle_input in a frame where exactly the keys of `keys` were
\* just pressed
HandleInput(keys) ==
    /\ ~panicked
    /\ UNCHANGED <<cfg, match_state, start_match_events, requests, applied,
                   world_tiles, world_cards, rng_used, visible, reader_fault, eng>>
    /\ IF match_state # "Playing"
       THEN /\ sent_tiles' = 0
            /\ sent_cards' = 0
            /\ log' = <<>>
            /\ UNCHANGED <<left_col, right_col, cards, hovered_card, panicked>>
       ELSE \E s \in {handle_input(playing(left_col, right_col, cards, hovered_card), keys)} :
                /\ left_col' = s.left_col
                /\ right_col' = s.right_col
                /\ cards' = s.cards
                /\ hovered_card' = s.hovered_card
                /\ sent_tiles' = s.sent_tiles
                /\ sent_cards' = s.sent_cards
                /\ log' = s.log
                /\ panicked' = s.panicked
    /\ unread_tiles' = (unread_tiles \/ sent_tiles' >= 1)
    /\ unread_cards' = (unread_cards \/ sent_cards' >= 1)

\* a StartMatchEvent sent from outside start_match's own frame (at most one
\* is pending at a time)
RequestStartMatch ==
    /\ ~panicked
    /\ start_match_events = 0
    /\ requests < MaxStartRequests
    /\ start_match_events' = 1
    /\ requests' = requests + 1
    /\ UNCHANGED <<cfg, match_state, left_col, right_col, cards, hovered_card,
                   sent_tiles, sent_cards, log, applied, world_tiles, world_cards,
                   panicked, rng_used, unread_tiles, unread_cards, visible,
                   reader_fault, eng>>

\* the end of a stage: the queued spawn commands are applied, and the
\* entities they made carry their markers for the queries of later runs
ApplyCommands ==
    /\ ~panicked
    /\ visible # world_tiles \cup world_cards
    /\ visible' = world_tiles \cup world_cards
    /\ UNCHANGED <<cfg, match_state, left_col, right_col, cards, hovered_card,
                   start_match_events, requests, sent_tiles, sent_cards, log,
                   applied, world_tiles, world_cards, panicked, rng_used,
                   unread_tiles, unread_cards, reader_fault, eng>>

\* the entities of Query<.., With<Tile>> and of Query<.., With<Card>>
tiles_query == visible \cap world_tiles

cards_query == visible \cap world_cards

\* the find_map of update_tiles_position over left_col zipped with right_col:
\* Some((i, side)) of the first pair holding the entity, None without one
find_tile(entity, l, r) ==
    LET n == IF Len(l) <= Len(r) THEN Len(l) ELSE Len(r)
        hits == {i \in 1..n : l[i].id = entity \/ r[i].id = entity}
    IN  IF hits = {} THEN None
        ELSE LET i == CHOOSE j \in hits : \A k \in hits : j <= k
             IN  Some([i |-> i - 1,
                       side |-> IF l[i].id = entity THEN "Left" ELSE "Right"])

\* the find_map of update_cards_style over cards: Some(is_used) of the first
\* card holding the entity, None without one
find_card(entity, cs) ==
    LET hits == {i \in 1..Len(cs) : cs[i].id = entity}
    IN  IF hits = {} THEN None
        ELSE Some(cs[CHOOSE j \in hits : \A k \in hits : j <= k].used # None)

\* a reading system ends in a panic
ReaderPanics(fault) ==
    /\ panicked' = TRUE
    /\ reader_fault' = fault

\* the system update_tiles_position with events to read
UpdateTilesPositionRun ==
    /\ ~panicked
    /\ unread_tiles
    /\ sent_tiles' = 0
    /\ sent_cards' = 0
    /\ log' = <<>>
    /\ UNCHANGED <<cfg, match_state, left_col, right_col, cards, hovered_card,
                   start_match_events, requests, applied, world_tiles, world_cards,
                   rng_used, unread_cards, visible, eng>>
    /\ IF match_state # "Playing"
       THEN /\ ReaderPanics("unreachable")
            /\ UNCHANGED unread_tiles
       ELSE IF \E entity \in tiles_query : ~IsSome(find_tile(entity, left_col, right_col))
       THEN /\ ReaderPanics("unwrap")
            /\ UNCHANGED unread_tiles
       ELSE /\ unread_tiles' = FALSE
            /\ UNCHANGED <<panicked, reader_fault>>

\* the system update_cards_style with events to read
UpdateCardsStyleRun ==
    /\ ~panicked
    /\ unread_cards
    /\ sent_tiles' = 0
    /\ sent_cards' = 0
    /\ log' = <<>>
    /\ UNCHANGED <<cfg, match_state, left_col, right_col, cards, hovered_card,
                   start_match_events, requests, applied, world_tiles, world_cards,
                   rng_used, unread_tiles, visible, eng>>
    /\ IF match_state # "Playing"
       THEN /\ ReaderPanics("unreachable")
            /\ UNCHANGED unread_cards
       ELSE IF IsSome(hovered_card) /\ Unwrap(hovered_card) >= Len(cards)
                /\ cards_query # {}
       THEN /\ ReaderPanics("index")
            /\ UNCHANGED unread_cards
       ELSE IF \E entity \in cards_query : ~IsSome(find_card(entity, cards))
       THEN /\ ReaderPanics("unwrap")
            /\ UNCHANGED unread_cards
       ELSE /\ unread_cards' = FALSE
            /\ UNCHANGED <<panicked, reader_fault>>

-----------------------------------------------------------------------------
(* Configurations and specifications                                       *)

Config(tiles_count, card_count, applied_card_count, nature_count) ==
    [tiles_count |-> tiles_count, card_count |-> card_count,
     applied_card_count |-> applied_card_count, nature_count |-> nature_count]

\* the deal applies the inverse of every card: each card must be played
FullConfig == Config(TilesCount, CardCount, AppliedCardCount, NatureCount)

\* one tile and one applied card fewer: the hand holds a card that was not applied
DecoyConfig == Config(TilesCount - 1, CardCount, AppliedCardCount - 1, NatureCount - 1)

EngineIdle == [stage |-> "idle"]

Init ==
    /\ \E c \in {FullConfig, DecoyConfig} : InitGame(c)
    /\ eng = EngineIdle

Next ==
    \/ StartMatch
    \/ \E keys \in SUBSET Keys : HandleInput(keys)

\* the program: setup's StartMatchEvent is the only one
Spec == Init /\ [][Next]_vars

\* one tile and one card fewer, every card applied
RestartConfig ==
    Config(TilesCount - 1, CardCount - 1, AppliedCardCount - 1, NatureCount - 1)

InitRestart ==
    /\ InitGame(RestartConfig)
    /\ eng = EngineIdle

\* the schedule runs start_match in every frame, so a pending StartMatchEvent
\* is read
FairSpec == InitRestart /\ [][Next]_vars /\ WF_vars(StartMatch)

NextRestart ==
    \/ StartMatch
    \/ \E keys \in SUBSET Keys : HandleInput(keys)
    \/ RequestStartMatch

\* the systems with StartMatchEvent also sent while a match is being played
SpecRestart == InitRestart /\ [][NextRestart]_vars

\* the systems of the schedule that read or write the match (update_cursor
\* does neither) in any order, with StartMatchEvent also sent during a match
\* and the stage ends at which spawn commands are applied
NextVisual ==
    \/ StartMatch
    \/ \E keys \in SUBSET Keys : HandleInput(keys)
    \/ RequestStartMatch
    \/ UpdateTilesPositionRun
    \/ UpdateCardsStyleRun
    \/ ApplyCommands

SpecVisual == InitRestart /\ [][NextVisual]_vars

\* the let-constants of start_match set to values its assert! reject, and to a
\* single tile
TooManyTilesConfig ==
    Config(TilesCount - 1, CardCount - 1, AppliedCardCount - 1, TilesCount - 2)

TooManyAppliedConfig ==
    Config(TilesCount - 1, CardCount - 1, CardCount, NatureCount - 1)

SingleTileConfig ==
    Config(1, CardCount - 1, AppliedCardCount - 1, NatureCount - 1)

InitConfig ==
    /\ \E c \in {RestartConfig, TooManyTilesConfig, TooManyAppliedConfig,
                  SingleTileConfig} : InitGame(c)
    /\ eng = EngineIdle

\* the program compiled with each of these sets of constants
SpecConfig == InitConfig /\ [][Next]_vars

-----------------------------------------------------------------------------
(* The action engine on its own: columns and an action are drawn, then     *)
(* apply_action and apply_inverse_action are applied to them.              *)

\* columns of pairwise distinct natures, of every length up to MaxLen; the
\* entities of a column are numbered from first_id on
engine_columns(first_id) ==
    {[k \in 1..Len(order) |-> [id |-> first_id + k - 1, nature |-> order[k]]] :
        order \in UNION {draw(nature_pool(MaxLen), n) : n \in 0..MaxLen}}

\* every action over these columns, with parameters one step outside the
\* valid ranges as well
engine_actions ==
    {SwapFirstAndLast(side) : side \in TileSides}
    \cup {SwapTwoAdjacent(top, side) : top \in 0..(MaxLen - 1), side \in TileSides}
    \cup {SwapTwoNatures(a, b, side) :
            a \in 0..(MaxLen - 1), b \in 0..(MaxLen - 1), side \in TileSides}
    \cup {Cycle(times, direction, side) :
            times \in (-1)..(MaxLen + 1), direction \in CycleDirections, side \in TileSides}

natures_in(col) == {col[k].nature : k \in 1..Len(col)}

\* the parameters an action may have for the column it names (section 3 of
\* the specification: top in [0, length - 2], natures present, and a rotation
\* the standard library accepts)
valid_action(action, left, right) ==
    LET col == pick_col(action.side, left, right)
    IN  CASE action.kind = "SwapFirstAndLast" -> Len(col) >= 1
          [] action.kind = "SwapTwoAdjacent"  -> action.top >= 0 /\ action.top + 1 < Len(col)
          [] action.kind = "SwapTwoNatures"   ->
                {action.nature_a, action.nature_b} \subseteq natures_in(col)
          [] action.kind = "Cycle"            -> action.times >= 0 /\ action.times <= Len(col)

InitEngine ==
    /\ InitGame(FullConfig)
    /\ \E l \in engine_columns(0), r \in engine_columns(MaxLen), a \in engine_actions :
            eng = [stage |-> "run", action |-> a, left0 |-> l, right0 |-> r,
                   left_col |-> l, right_col |-> r, ops |-> <<>>, panicked |-> FALSE]

\* the engine's state after one more call that returned r
engine_after(r, name) ==
    [eng EXCEPT !.left_col = r.left_col, !.right_col = r.right_col,
                !.panicked = r.panicked, !.ops = Append(@, name)]

engine_can_step == eng.stage = "run" /\ ~eng.panicked /\ Len(eng.ops) < MaxOps

EngineApply ==
    /\ engine_can_step
    /\ \E r \in {apply_action(eng.action, eng.left_col, eng.right_col)} :
            eng' = engine_after(r, "apply")
    /\ UNCHANGED gameVars

EngineApplyInverse ==
    /\ engine_can_step
    /\ \E r \in {apply_inverse_action(eng.action, eng.left_col, eng.right_col)} :
            eng' = engine_after(r, "inverse")
    /\ UNCHANGED gameVars

\* the same Cycle with the other CycleDirection; the swaps have no direction
flipped(action) ==
    IF action.kind = "Cycle"
    THEN [action EXCEPT !.direction = IF @ = "Up" THEN "Down" ELSE "Up"]
    ELSE action

\* apply_action of the engine's Cycle with its direction flipped
EngineApplyFlipped ==
    /\ engine_can_step
    /\ eng.action.kind = "Cycle"
    /\ \E r \in {apply_action(flipped(eng.action), eng.left_col, eng.right_col)} :
            eng' = engine_after(r, "apply_flipped")
    /\ UNCHANGED gameVars

NextEngine == EngineApply \/ EngineApplyInverse \/ EngineApplyFlipped

SpecAction == InitEngine /\ [][NextEngine]_vars

-----------------------------------------------------------------------------
(* Claims about the action engine (checked under SpecAction)               *)

\* how often each nature occurs in a column
nature_counts(col) ==
    [n \in 0..(MaxLen - 1) |-> Cardinality({k \in 1..Len(col) : col[k].nature = n})]

engine_valid == eng.stage = "run" /\ valid_action(eng.action, eng.left0, eng.right0)

\* C2: for every action with valid parameters and every pair of columns of
\* distinct symbols, apply_action after apply_inverse_action of the same
\* action, and apply_inverse_action after apply_action, complete and leave
\* both columns exactly as they were (same entries at the same positions).
C2_InverseCorrectness ==
    (engine_valid /\ eng.ops \in {<<"inverse", "apply">>, <<"apply", "inverse">>})
        => /\ ~eng.panicked
           /\ eng.left_col = eng.left0
           /\ eng.right_col = eng.right0

\* a rotation by one of a column of three has been undone by its forward action
C2_Witness ==
    /\ eng.stage = "run"
    /\ eng.ops = <<"inverse", "apply">>
    /\ eng.action = Cycle(1, "Up", "Left")
    /\ Len(eng.left0) = MaxLen
    /\ eng.left_col = eng.left0
    /\ ~eng.panicked

\* C10: whenever apply_action or apply_inverse_action has been applied with
\* valid parameters, each column has the length it had and holds every
\* nature as often as before.
C10_MultisetPreserved ==
    (engine_valid /\ eng.ops # <<>>)
        => /\ ~eng.panicked
           /\ Len(eng.left_col) = Len(eng.left0)
           /\ Len(eng.right_col) = Len(eng.right0)
           /\ nature_counts(eng.left_col) = nature_counts(eng.left0)
           /\ nature_counts(eng.right_col) = nature_counts(eng.right0)

\* a forward swap of two adjacent entries has moved entries of a full column
C10_Witness ==
    /\ eng.stage = "run"
    /\ eng.ops = <<"apply">>
    /\ eng.action = SwapTwoAdjacent(0, "Right")
    /\ Len(eng.right0) = MaxLen
    /\ eng.right_col # eng.right0
    /\ nature_counts(eng.right_col) = nature_counts(eng.right0)

-----------------------------------------------------------------------------
(* Claims about the deal and the play (checked under Spec)                 *)

Playing == match_state = "Playing" /\ ~panicked

used_cards == {i \in 1..Len(cards) : cards[i].used # None}

\* for all k, left_col[k].nature == right_col[k].nature
solved(l, r) == Len(l) = Len(r) /\ \A k \in 1..Len(l) : l[k].nature = r[k].nature

\* the columns after activating the cards of `order` (0-based indices) in turn
RECURSIVE after_playing(_, _, _)
after_playing(order, l, r) ==
    IF order = <<>> THEN Cols(l, r)
    ELSE LET x == apply_action(cards[Head(order) + 1].action, l, r)
         IN  IF x.panicked THEN x ELSE after_playing(Tail(order), x.left_col, x.right_col)

\* every ordering of the cards the deal applied
orderings_of_applied ==
    LET S == {applied[k] : k \in 1..Len(applied)}
    IN  {o \in [1..Len(applied) -> S] : \A a, b \in 1..Len(applied) : a # b => o[a] # o[b]}

reverse(q) == [k \in 1..Len(q) |-> q[Len(q) + 1 - k]]

solves(order) ==
    LET x == after_playing(order, left_col, right_col)
    IN  ~x.panicked /\ solved(x.left_col, x.right_col)

\* C1: every dealt puzzle has an ordering of exactly the cards whose inverse
\* the deal applied such that activating them in that ordering, from the
\* dealt columns, makes the natures of the two columns agree at every position.
C1_Solvability ==
    (Playing /\ used_cards = {}) => \E order \in orderings_of_applied : solves(order)

\* a dealt puzzle that is not solved yet, and that playing the applied cards
\* in the order of their application does not solve
C1_Witness ==
    /\ Playing
    /\ used_cards = {}
    /\ cfg = FullConfig
    /\ Len(applied) = AppliedCardCount
    /\ ~solved(left_col, right_col)
    /\ ~solves(applied)
    /\ solves(reverse(applied))

\* the cards played so far, as 0-based indices in the order of their use
played ==
    [j \in 1..Cardinality(used_cards) |->
        (CHOOSE i \in used_cards : cards[i].used = Some(j - 1)) - 1]

all_and_only_applied_played ==
    /\ Playing
    /\ Len(applied) >= 1
    /\ {i - 1 : i \in used_cards} = {applied[k] : k \in 1..Len(applied)}

\* C3 as stated: once all and only the applied cards have been activated, in
\* whatever order, the natures of the two columns agree at every position.
C3_AnyOrderSolves ==
    all_and_only_applied_played => solved(left_col, right_col)

\* C3 as amended: once all and only the applied cards have been activated in
\* the reverse of the order in which the deal applied their inverses, the
\* natures of the two columns agree at every position.
C3_ReverseOrderSolves ==
    (all_and_only_applied_played /\ played = reverse(applied))
        => solved(left_col, right_col)

\* two applied cards have been played last-applied first, and the puzzle,
\* which the other order does not solve, is solved and reported so
C3_Witness ==
    /\ all_and_only_applied_played
    /\ cfg = FullConfig
    /\ Len(applied) = AppliedCardCount
    /\ played = reverse(applied)
    /\ cards[1].action # cards[2].action
    /\ log = <<"Victory">>
    /\ solved(left_col, right_col)

-----------------------------------------------------------------------------
(* Claims about handle_input (checked under Spec)                          *)

used_count == Cardinality(used_cards)

\* the step is a run of a system of the current match, not a new deal
same_match == match_state = "Playing" /\ match_state' = "Playing" /\ UNCHANGED applied
                /\ UNCHANGED world_cards

\* C4: a run of handle_input that activates a card (it sends
\* UpdateTilesPosition) reports exactly one message, which is "Victory" if
\* the columns, which have the same length, then hold the same nature at
\* every position, and "Retry" if not; the match stays Playing; and nothing
\* is reported by a run that activates no card.
C4_WinDetection ==
    /\ sent_tiles >= 1 =>
          /\ match_state = "Playing"
          /\ Len(left_col) = Len(right_col)
          /\ Len(log) = 1
          /\ (\A k \in 1..Len(left_col) : left_col[k].nature = right_col[k].nature)
                => log = <<"Victory">>
          /\ (\E k \in 1..Len(left_col) : left_col[k].nature # right_col[k].nature)
                => log = <<"Retry">>
    /\ sent_tiles = 0 => log = <<>>

\* the activation of the last card of a full hand reported Victory
C4_Witness ==
    /\ Playing
    /\ sent_tiles = 1
    /\ log = <<"Victory">>
    /\ Len(left_col) = TilesCount
    /\ used_count = CardCount

\* an activation left the columns different and reported Retry
C4_WitnessRetry ==
    /\ Playing
    /\ sent_tiles = 1
    /\ log = <<"Retry">>
    /\ left_col[1].nature = right_col[1].nature
    /\ ~solved(left_col, right_col)

\* C5: within a match the card activated when j cards are already used
\* receives used == Some(j); and in every Playing state the used values of
\* the used cards are pairwise different and are exactly 0 .. m - 1, m being
\* the number of used cards.
C5_UsedOrder ==
    /\ [][same_match =>
            \A i \in 1..Len(cards) :
                (cards[i].used = None /\ cards'[i].used # None)
                    => cards'[i].used = Some(used_count)]_vars
    /\ [](Playing =>
            /\ {Unwrap(cards[i].used) : i \in used_cards} = 0..(used_count - 1)
            /\ \A i, j \in used_cards : cards[i].used = cards[j].used => i = j)

\* every card of a hand of two or more has been activated
C5_Witness ==
    /\ Playing
    /\ Len(cards) >= 2
    /\ used_count = Len(cards)
    /\ cards[Len(cards)].used = Some(0)
    /\ cards[1].used = Some(Len(cards) - 1)

\* the card under the cursor is used
hovered_is_used ==
    /\ Playing
    /\ IsSome(hovered_card)
    /\ Unwrap(hovered_card) < Len(cards)
    /\ cards[Unwrap(hovered_card) + 1].used # None

\* C6: Activate alone while the hovered card is used changes neither column,
\* no card and not the cursor, and does not panic; and no run of
\* handle_input changes a used value that is set.
C6_ReactivationNoOp ==
    /\ [][(hovered_is_used /\ HandleInput({"Space"}))
            => (UNCHANGED <<left_col, right_col, cards, hovered_card, match_state>>
                /\ ~panicked' /\ sent_tiles' = 0 /\ log' = <<>>)]_vars
    /\ [][same_match =>
            \A i \in 1..Len(cards) :
                cards[i].used # None => cards'[i].used = cards[i].used]_vars

\* all three keys in one frame and no card activated: the cursor went left and
\* back, and Activate met a used card
C6_Witness ==
    /\ hovered_is_used
    /\ sent_cards = Cardinality(Keys)
    /\ sent_tiles = 0
    /\ used_count >= 1
    /\ used_count < Len(cards)

\* the state handle_input starts from in the current state
current == playing(left_col, right_col, cards, hovered_card)

-----------------------------------------------------------------------------
(* Claims about start_match (C8 under FairSpec, C9 under SpecRestart)      *)

\* a PlayingState as start_match installs it for the configuration
fresh_match ==
    /\ match_state' = "Playing"
    /\ hovered_card' = Some(0)
    /\ Len(cards') = cfg.card_count
    /\ \A i \in 1..Len(cards') : cards'[i].used = None
    /\ Len(left_col') = cfg.tiles_count
    /\ Len(right_col') = cfg.tiles_count

\* C8: the state is Ready at startup; reading the StartMatchEvent in Ready
\* installs a Playing state with hovered_card = Some(0), card_count cards,
\* all unused, and two columns of tiles_count tiles; and the event sent by
\* setup is read, so that Playing is reached.
C8_MatchStart ==
    /\ match_state = "Ready"
    /\ [][(match_state = "Ready" /\ StartMatch) => fresh_match]_vars
    /\ <>(match_state = "Playing")

\* the match has just been dealt from Ready
C8_Witness ==
    /\ Playing
    /\ requests = 1
    /\ start_match_events = 0
    /\ hovered_card = Some(0)
    /\ used_cards = {}
    /\ Len(cards) = cfg.card_count
    /\ Len(cards) >= 1
    /\ Len(left_col) = cfg.tiles_count
    /\ Len(right_col) = cfg.tiles_count
    /\ sent_cards = 1
    /\ sent_tiles = 0

\* what a deal installs, as the generation run returns it
installed == [left_col |-> left_col, right_col |-> right_col, cards |-> cards,
              applied |-> applied, panicked |-> FALSE]

-----------------------------------------------------------------------------
(* Claims about the columns of a match (checked under Spec)                *)

distinct_natures(col) ==
    \A j, k \in 1..Len(col) : col[j].nature = col[k].nature => j = k

\* C11: in every Playing state, right after the deal and after any inputs,
\* both columns have tiles_count entries, the natures of each column are
\* pairwise different and lie in 0 .. nature_count - 1, and the two columns
\* hold the same set of natures.
C11_ColumnInvariant ==
    Playing =>
        /\ Len(left_col) = cfg.tiles_count
        /\ Len(right_col) = cfg.tiles_count
        /\ distinct_natures(left_col)
        /\ distinct_natures(right_col)
        /\ natures_in(left_col) \subseteq 0..(cfg.nature_count - 1)
        /\ natures_in(right_col) \subseteq 0..(cfg.nature_count - 1)
        /\ natures_in(left_col) = natures_in(right_col)

\* a card has just been activated on full columns, which now differ at every
\* position
C11_Witness ==
    /\ Playing
    /\ cfg = FullConfig
    /\ sent_tiles = 1
    /\ used_count = CardCount
    /\ \A k \in 1..Len(left_col) : left_col[k].nature # right_col[k].nature

-----------------------------------------------------------------------------
(* Claims about the direction of Cycle (checked under SpecAction)          *)

\* the column the engine's action names, before and now
named0 == pick_col(eng.action.side, eng.left0, eng.right0)

named == pick_col(eng.action.side, eng.left_col, eng.right_col)

\* a valid Cycle has been applied forward, once
cycled_forward ==
    /\ eng.stage = "run"
    /\ eng.ops = <<"apply">>
    /\ eng.action.kind = "Cycle"
    /\ valid_action(eng.action, eng.left0, eng.right0)

\* the entry that was at index i is at index (i + d) mod length, for every i
entries_moved_by(d) ==
    /\ Len(named) = Len(named0)
    /\ \A i \in 0..(Len(named0) - 1) :
            named[((i + d + Len(named0)) % Len(named0)) + 1] = named0[i + 1]

\* C12 as stated: apply_action of Cycle{Up, times: t} moves the entry at
\* index i to index (i - t) mod length (toward index 0), and of
\* Cycle{Down, times: t} to index (i + t) mod length.
C12_UpTowardIndexZero ==
    cycled_forward =>
        /\ ~eng.panicked
        /\ IF eng.action.direction = "Up"
           THEN entries_moved_by(0 - eng.action.times)
           ELSE entries_moved_by(eng.action.times)

\* C12 as amended: apply_action of Cycle{Up, times: t} moves the entry at
\* index i to index (i + t) mod length (toward the last index, the last
\* entries wrapping to the front), and of Cycle{Down, times: t} to index
\* (i - t) mod length; the other column is untouched.
C12_UpTowardLastIndex ==
    cycled_forward =>
        /\ ~eng.panicked
        /\ IF eng.action.direction = "Up"
           THEN entries_moved_by(eng.action.times)
           ELSE entries_moved_by(0 - eng.action.times)

\* Cycle{Up, times: 1} applied to a full column: the last entry is now first
C12_Witness ==
    /\ cycled_forward
    /\ eng.action = Cycle(1, "Up", "Right")
    /\ Len(eng.right0) = MaxLen
    /\ eng.right_col =
          <<eng.right0[MaxLen]>> \o SubSeq(eng.right0, 1, MaxLen - 1)
    /\ eng.left_col = eng.left0

-----------------------------------------------------------------------------
(* Claims about repeated forward application (checked under SpecAction)    *)

columns_restored ==
    /\ ~eng.panicked
    /\ eng.left_col = eng.left0
    /\ eng.right_col = eng.right0

\* C13: for valid parameters, apply_action of SwapFirstAndLast, of
\* SwapTwoAdjacent or of SwapTwoNatures twice in a row restores both columns,
\* and apply_action of Cycle{d, t} and of Cycle{flipped d, t} on the same
\* side, in either order, restores both columns.
C13_ForwardSelfInverse ==
    /\ (engine_valid /\ eng.action.kind # "Cycle" /\ eng.ops = <<"apply", "apply">>)
            => columns_restored
    /\ (engine_valid /\ eng.action.kind = "Cycle"
            /\ eng.ops \in {<<"apply", "apply_flipped">>, <<"apply_flipped", "apply">>})
            => columns_restored

\* a full column was cycled down by two and then up by two
C13_Witness ==
    /\ engine_valid
    /\ eng.action = Cycle(MaxLen - 1, "Down", "Left")
    /\ Len(eng.left0) = MaxLen
    /\ eng.ops = <<"apply", "apply_flipped">>
    /\ columns_restored

\* two natures of a full column were swapped and swapped back
C13_WitnessSwap ==
    /\ engine_valid
    /\ eng.action = SwapTwoNatures(0, MaxLen - 1, "Right")
    /\ Len(eng.right0) = MaxLen
    /\ eng.ops = <<"apply", "apply">>
    /\ columns_restored

-----------------------------------------------------------------------------
(* Claims about the configuration checks (checked under SpecConfig)        *)

\* the three configuration errors of the specification
config_error(c) ==
    \/ c.applied_card_count > c.card_count
    \/ c.tiles_count > c.nature_count
    \/ c.tiles_count < 2

\* C14: a run of start_match with applied_card_count > card_count, with
\* tiles_count > nature_count or with tiles_count < 2 is rejected (it ends in
\* a panic and installs nothing), and it is rejected before any random draw.
C14_EagerConfigChecks ==
    [][(StartMatch /\ config_error(cfg))
            => (panicked' /\ ~rng_used' /\ UNCHANGED match_state)]_vars

\* C15: a run of start_match whose assert! on tiles_count or on
\* applied_card_count fails, started in Ready, ends in a panic with
\* MatchState still Ready, nothing spawned and no PlayingState written; a
\* program with such constants is never Playing.
C15_ConfigErrorLeavesReady ==
    /\ [][(match_state = "Ready" /\ StartMatch /\ ~config_asserts_hold(cfg))
            => /\ panicked'
               /\ match_state' = "Ready"
               /\ UNCHANGED <<left_col, right_col, cards, hovered_card,
                              world_tiles, world_cards>>]_vars
    /\ [](~config_asserts_hold(cfg) => match_state = "Ready")

\* start_match has panicked on assert!(applied_card_count <= card_count)
C15_Witness ==
    /\ cfg = TooManyAppliedConfig
    /\ panicked
    /\ rng_used
    /\ start_match_events = 0
    /\ match_state = "Ready"
    /\ world_tiles = {}

\* start_match has panicked on assert!(tiles_count <= TILES_LEFT.len())
C15_WitnessTiles ==
    /\ cfg = TooManyTilesConfig
    /\ panicked
    /\ ~rng_used
    /\ start_match_events = 0
    /\ match_state = "Ready"

-----------------------------------------------------------------------------
(* Claims about invalid actions (checked under SpecAction)                 *)

\* a SwapTwoAdjacent whose top is outside [0, length - 2], or a
\* SwapTwoNatures naming a nature that the column it names does not hold
invalid_swap ==
    /\ eng.stage = "run"
    /\ eng.action.kind \in {"SwapTwoAdjacent", "SwapTwoNatures"}
    /\ ~valid_action(eng.action, eng.left0, eng.right0)

\* C16: apply_action or apply_inverse_action of such an action panics: the
\* call does not return, nothing is applied after it, and no entry of either
\* column has been moved.
C16_FailFast ==
    (invalid_swap /\ eng.ops # <<>>)
        => /\ eng.panicked
           /\ Len(eng.ops) = 1
           /\ eng.left_col = eng.left0
           /\ eng.right_col = eng.right0

\* apply_inverse_action of SwapTwoAdjacent with top = length - 1 has panicked
C16_Witness ==
    /\ invalid_swap
    /\ eng.ops = <<"inverse">>
    /\ eng.action = SwapTwoAdjacent(MaxLen - 1, "Left")
    /\ Len(eng.left0) = MaxLen
    /\ eng.panicked

\* apply_action of SwapTwoNatures has panicked on its second nature, which the
\* column does not hold
C16_WitnessNature ==
    /\ invalid_swap
    /\ eng.ops = <<"apply">>
    /\ eng.action.kind = "SwapTwoNatures"
    /\ eng.action.side = "Right"
    /\ eng.action.nature_a \in natures_in(eng.right0)
    /\ eng.action.nature_b \notin natures_in(eng.right0)
    /\ eng.panicked

-----------------------------------------------------------------------------
(* Claims about the validity of dealt actions (checked under Spec)         *)

\* 2 <= tiles_count <= nature_count and applied_card_count <= card_count
valid_config(c) ==
    /\ 2 <= c.tiles_count
    /\ c.tiles_count <= c.nature_count
    /\ c.applied_card_count <= c.card_count

\* the action of a dealt card is valid for both columns
dealt_action_valid(action) ==
    CASE action.kind = "SwapFirstAndLast" -> TRUE
      [] action.kind = "SwapTwoAdjacent" ->
            action.top >= 0 /\ action.top <= cfg.tiles_count - 2
      [] action.kind = "SwapTwoNatures" ->
            /\ action.nature_a # action.nature_b
            /\ {action.nature_a, action.nature_b} \subseteq natures_in(left_col)
            /\ {action.nature_a, action.nature_b} \subseteq natures_in(right_col)
      [] action.kind = "Cycle" ->
            action.times >= 0 /\ action.times <= cfg.tiles_count

\* C17: with a valid configuration the process never panics, neither in the
\* inverse applications of the deal nor in any run of handle_input, and in
\* every Playing state the action of every card is valid for both columns.
C17_NoEngineError ==
    valid_config(cfg) =>
        /\ ~panicked
        /\ match_state = "Playing" =>
                \A i \in 1..Len(cards) :
                    /\ dealt_action_valid(cards[i].action)
                    /\ valid_action(cards[i].action, left_col, right_col)
                    /\ ~apply_action(cards[i].action, left_col, right_col).panicked

\* both cards of a full hand were played: a swap of the last two entries and
\* a swap of two natures
C17_Witness ==
    /\ Playing
    /\ cfg = FullConfig
    /\ used_count = CardCount
    /\ cards[1].action.kind = "SwapTwoAdjacent"
    /\ cards[1].action.top = TilesCount - 2
    /\ cards[2].action.kind = "SwapTwoNatures"
    /\ sent_tiles = 1

-----------------------------------------------------------------------------
(* Claims about the events sent (checked under Spec)                       *)

\* C18: a run of handle_input that changes a column sends
\* UpdateTilesPosition in that run, and every step that changes hovered_card
\* or the used value of a card (a hover key, an activation, the start of a
\* match) sends UpdateCardsStyle in that run.
C18_Notifications ==
    /\ [][(same_match /\ (left_col' # left_col \/ right_col' # right_col))
            => sent_tiles' >= 1]_vars
    /\ [][(hovered_card' # hovered_card \/ cards' # cards)
            => sent_cards' >= 1]_vars

\* Right and Space in one frame: the cursor moved to the second card, which
\* was activated and changed a column
C18_Witness ==
    /\ Playing
    /\ hovered_card = Some(1)
    /\ cards[2].used = Some(0)
    /\ cards[1].used = None
    /\ sent_tiles = 1
    /\ sent_cards = 2
    /\ ~solves(<<>>)

-----------------------------------------------------------------------------
(* Claims about the dealt hand (checked under Spec)                        *)

card_actions_dealt == [i \in 1..Len(cards) |-> cards[i].action]

natures_of(col) == [k \in 1..Len(col) |-> col[k].nature]

\* the columns are what the inverses of the cards at the indices of `applied`,
\* in that order, make of two equal columns of some tiles_order
columns_come_from_applied ==
    \E tiles_order \in tiles_orders(cfg) :
        /\ card_actions_dealt \in card_hands(cfg, tiles_order)
        /\ \E b \in {apply_inverses(card_actions_dealt, applied,
                                     build_col(tiles_order), build_col(tiles_order))} :
                /\ ~b.panicked
                /\ natures_of(b.left_col) = natures_of(left_col)
                /\ natures_of(b.right_col) = natures_of(right_col)

\* C19: in a dealt match of which no card has been played, the deal has
\* applied the inverses of exactly applied_card_count cards, at pairwise
\* different indices of the hand; the hand holds all card_count generated
\* actions, the ones not applied included; and the columns are the result of
\* applying the inverses of the cards at those indices.
C19_DealtHand ==
    (Playing /\ used_cards = {}) =>
        /\ Len(applied) = cfg.applied_card_count
        /\ \A j, k \in 1..Len(applied) : applied[j] = applied[k] => j = k
        /\ \A k \in 1..Len(applied) : applied[k] \in 0..(cfg.card_count - 1)
        /\ Len(cards) = cfg.card_count
        /\ columns_come_from_applied

\* a hand of two of which only the second card was applied: the first card,
\* of another kind and for the other column, is dealt all the same
C19_Witness ==
    /\ Playing
    /\ cfg = DecoyConfig
    /\ used_cards = {}
    /\ applied = <<1>>
    /\ Len(cards) = CardCount
    /\ cards[1].action.kind # cards[2].action.kind
    /\ cards[1].action.side # cards[2].action.side
    /\ ~solved(left_col, right_col)
    /\ solves(<<1>>)

-----------------------------------------------------------------------------
(* Claims about the frame of an action (checked under SpecAction)          *)

\* the column the engine's action does not name, before and now
other0 == pick_col(eng.action.side, eng.right0, eng.left0)

other == pick_col(eng.action.side, eng.right_col, eng.left_col)

\* the positions (1-based) at which the named column has changed
changed_positions == {k \in 1..Len(named0) : named[k] # named0[k]}

\* C20: after one call of apply_action or of apply_inverse_action, with any
\* action, the column the action does not name is as it was; for the three
\* swaps the named column has its length and differs at two positions at
\* most; and a valid SwapTwoAdjacent has exchanged the entries at top and
\* top + 1 and nothing else.
C20_OnlyNamedSide ==
    (eng.stage = "run" /\ Len(eng.ops) = 1) =>
        /\ other = other0
        /\ eng.action.kind # "Cycle" =>
                /\ Len(named) = Len(named0)
                /\ Cardinality(changed_positions) <= 2
        /\ (eng.action.kind = "SwapTwoAdjacent" /\ engine_valid) =>
                /\ ~eng.panicked
                /\ named[eng.action.top + 1] = named0[eng.action.top + 2]
                /\ named[eng.action.top + 2] = named0[eng.action.top + 1]
                /\ changed_positions = {eng.action.top + 1, eng.action.top + 2}

\* apply_inverse_action of SwapTwoAdjacent{top: 1} on the right one of two
\* full columns
C20_Witness ==
    /\ eng.stage = "run"
    /\ eng.ops = <<"inverse">>
    /\ eng.action = SwapTwoAdjacent(MaxLen - 2, "Right")
    /\ Len(eng.left0) = MaxLen
    /\ Len(eng.right0) = MaxLen
    /\ eng.left_col = eng.left0
    /\ changed_positions = {MaxLen - 1, MaxLen}

-----------------------------------------------------------------------------
(* Claims about SwapFirstAndLast on one entry (checked under SpecAction)   *)

\* C21: apply_action and apply_inverse_action of SwapFirstAndLast on a column
\* of length 1 return without a panic and leave that column, and the other
\* one, as they were.
C21_SwapEndsOfOne ==
    (eng.stage = "run" /\ eng.action.kind = "SwapFirstAndLast"
        /\ Len(named0) = 1 /\ eng.ops # <<>>)
        => /\ ~eng.panicked
           /\ eng.left_col = eng.left0
           /\ eng.right_col = eng.right0

\* both functions were applied to a left column of one entry
C21_Witness ==
    /\ eng.stage = "run"
    /\ eng.action = SwapFirstAndLast("Left")
    /\ Len(eng.left0) = 1
    /\ Len(eng.right0) = MaxLen
    /\ eng.ops = <<"apply", "inverse">>
    /\ ~eng.panicked
    /\ eng.left_col = eng.left0

-----------------------------------------------------------------------------
(* Claims about the cursor (checked under Spec)                            *)

\* C22: whenever the MatchState is Playing, hovered_card is Some(i) with
\* 0 <= i < cards.len(): it is never None, and cards[i] exists.
C22_HoverInRange ==
    match_state = "Playing" =>
        /\ IsSome(hovered_card)
        /\ Unwrap(hovered_card) >= 0
        /\ Unwrap(hovered_card) < Len(cards)

\* every card is used and the cursor, moved by the last run of handle_input
\* without an activation, is on the last card
C22_Witness ==
    /\ Playing
    /\ Len(cards) = CardCount
    /\ used_count = CardCount
    /\ hovered_card = Some(CardCount - 1)
    /\ cards[1].used = Some(CardCount - 1)
    /\ sent_cards = 1
    /\ sent_tiles = 0

\* a run of handle_input with hover keys only
hover_only == \E keys \in (SUBSET {"Left", "Right"}) \ {{}} : HandleInput(keys)

\* C23: a run of handle_input with the Left key, the Right key or both (and
\* no activation key) changes neither column, no card (action, used, entity)
\* and not the MatchState, applies no action and reports neither Victory nor
\* Retry; hovered_card apart, it only sends UpdateCardsStyle.
C23_HoverPureNavigation ==
    [][(Playing /\ hover_only)
            => /\ UNCHANGED <<left_col, right_col, cards, match_state, applied>>
               /\ ~panicked'
               /\ sent_tiles' = 0
               /\ log' = <<>>]_vars

\* after the second card was played the cursor went back to the first, which
\* is still unused, over columns that still differ
C23_Witness ==
    /\ Playing
    /\ Len(cards) = CardCount
    /\ hovered_card = Some(0)
    /\ cards[1].used = None
    /\ cards[CardCount].used = Some(0)
    /\ sent_cards = 1
    /\ sent_tiles = 0
    /\ log = <<>>
    /\ ~solved(left_col, right_col)

\* the hovered card is not used
hovered_is_unused ==
    /\ Playing
    /\ IsSome(hovered_card)
    /\ Unwrap(hovered_card) < Len(cards)
    /\ cards[Unwrap(hovered_card) + 1].used = None

\* C24: an activation key alone while the hovered card is unused sets the
\* used value of the hovered card and of no other card, so that one more card
\* is used; it leaves hovered_card, the number and order of the cards and
\* the action and entity of every card as they were, and it leaves the
\* column that the card's action does not name as it was.
C24_ActivateFrame ==
    [][(hovered_is_unused /\ HandleInput({"Space"}))
            => /\ ~panicked'
               /\ hovered_card' = hovered_card
               /\ Len(cards') = Len(cards)
               /\ \A i \in 1..Len(cards) :
                    /\ cards'[i].action = cards[i].action
                    /\ cards'[i].id = cards[i].id
                    /\ (i # Unwrap(hovered_card) + 1) => cards'[i].used = cards[i].used
               /\ cards'[Unwrap(hovered_card) + 1].used # None
               /\ used_count' = used_count + 1
               /\ IF cards[Unwrap(hovered_card) + 1].action.side = "Left"
                  THEN right_col' = right_col
                  ELSE left_col' = left_col]_vars

\* the second card of a full hand, an action on the right column, was
\* activated first, by a run of handle_input with the activation key alone
C24_Witness ==
    /\ Playing
    /\ cfg = FullConfig
    /\ hovered_card = Some(1)
    /\ cards[2].used = Some(0)
    /\ cards[2].action.side = "Right"
    /\ cards[1].used = None
    /\ sent_tiles = 1
    /\ sent_cards = 1
    /\ log = <<"Retry">>

\* a run of handle_input without a match being played changes nothing and
\* sends nothing
ready_input_is_inert ==
    (match_state # "Playing" /\ \E keys \in SUBSET Keys : HandleInput(keys))
        => /\ sent_tiles' = 0
           /\ sent_cards' = 0
           /\ UNCHANGED <<match_state, left_col, right_col, cards, hovered_card,
                          unread_tiles, unread_cards, panicked>>

\* C25: neither update_tiles_position nor update_cards_style ever reaches
\* its unreachable!() arm: an UpdateTilesPosition or UpdateCardsStyle event
\* waits to be read only while MatchState is Playing, a run of handle_input
\* in Ready changes nothing and sends nothing, and MatchState never goes
\* from Playing back to Ready.
C25_ReadersNeverUnreachable ==
    /\ [](/\ reader_fault # "unreachable"
          /\ (unread_tiles \/ unread_cards) => match_state = "Playing")
    /\ [][/\ ready_input_is_inert
          /\ match_state = "Playing" => match_state' = "Playing"]_vars

\* both reading systems have read their events of a match in which a card
\* was played, with every entity in their queries
C25_Witness ==
    /\ Playing
    /\ ~panicked
    /\ used_count >= 1
    /\ ~unread_tiles
    /\ ~unread_cards
    /\ visible = world_tiles \cup world_cards
    /\ visible # {}

\* C26: every entity with the Tile marker is the entity of an entry of the
\* current left_col or right_col and every entity with the Card marker is
\* the entity of a current card, so that no find_map(..).unwrap() of
\* update_tiles_position or update_cards_style fails, StartMatch requests
\* during a match included.
C26_EntitiesBelongToMatch ==
    /\ reader_fault # "unwrap"
    /\ Playing =>
        /\ world_tiles \subseteq ids_of(left_col) \cup ids_of(right_col)
        /\ world_cards \subseteq ids_of(cards)

\* the same for the match that setup starts, before any other StartMatchEvent
C26_FirstMatchOnly ==
    requests = 1 => C26_EntitiesBelongToMatch

\* a reading system has read its events in the first match with every
\* entity in its query
C26_FirstMatchWitness ==
    /\ Playing
    /\ requests = 1
    /\ ~unread_cards
    /\ ~unread_tiles
    /\ used_count >= 1
    /\ cards_query = world_cards
    /\ tiles_query = world_tiles
    /\ reader_fault = "none"

\* a reading system has failed on the entity of an earlier match
C26_UnwrapFails ==
    /\ reader_fault = "unwrap"
    /\ requests > 1

====
